---- MODULE Spec2Model ----
(***************************************************************************)
(* A model of the OPML extraction pipeline (opml_to_csv.py) and of the     *)
(* posting loop (post_rss_feeds.py).                                       *)
(*                                                                         *)
(* Text is a sequence of code points.  An ASCII code point is the          *)
(* one-character string itself; a non-ASCII code point is written by its   *)
(* name, "U+2019".                                                         *)
(***************************************************************************)
EXTENDS Integers, Sequences, FiniteSets, TLC

VARIABLES
    \* parse_opml_file, one call on one file
    file_path,    \* the argument
    doc_tags,     \* the tags the file was written from (not program state)
    file_text,    \* the content of the file
    pc,           \* where the call stands
    xml_content,  \* the local of that name
    root,         \* the result of ET.fromstring
    feeds,        \* the local of that name
    raised,       \* the exception the try block raised, or "none"
    fallback_outcome, \* how the call of parse_opml_file_fallback ended, or "none"
    reported,     \* the messages printed by the handlers
    trace,        \* the states of the per-document state machine passed so far
    returned,     \* has the call returned?
    result,       \* the list it returned
    escaped,      \* did an exception leave the call?
    \* fix_xml_encoding applied twice
    norm_in,      \* the input text
    norm_runs,    \* the outputs of the successive applications
    \* post_all_feeds, one call
    rows,             \* the rows csv.DictReader gives for the file
    post_pc,          \* where the call stands
    row_i,            \* the loop counter i
    total_feeds,      \* the locals of these names
    successful_posts,
    failed_posts,
    events            \* the requests sent and the sleeps taken, in order

opml_vars == <<file_path, doc_tags, file_text, pc, xml_content, root, feeds, raised,
               fallback_outcome, reported, trace, returned, result, escaped>>
norm_vars == <<norm_in, norm_runs>>
post_vars == <<rows, post_pc, row_i, total_feeds, successful_posts, failed_posts, events>>
vars == <<opml_vars, norm_vars, post_vars>>

----------------------------------------------------------------------------
(* Bounds *)

\* the number of fragments an input text of the normalizer is built from
MaxFrags == 3

\* the number of catalogue entries the body of a document is built from
MaxItems == 2

\* the number of rows of a CSV file
MaxRows == 3

----------------------------------------------------------------------------
(* Text helpers *)

\* the least element of a non-empty set of integers
Min(S) == CHOOSE x \in S : \A y \in S : x <= y

\* pieces[lo] \o ... \o pieces[hi], by halving (the depth of the recursion is
\* logarithmic in the number of pieces)
RECURSIVE ConcatRange(_, _, _)
ConcatRange(pieces, lo, hi) ==
    IF lo > hi THEN <<>>
    ELSE IF lo = hi THEN pieces[lo]
    ELSE LET mid == (lo + hi) \div 2
         IN  ConcatRange(pieces, lo, mid) \o ConcatRange(pieces, mid + 1, hi)

Concat(ss) == ConcatRange(ss, 1, Len(ss))

\* does pat occur in s at index i (1-based)?
StartsWithAt(s, i, pat) ==
    /\ i >= 1
    /\ i + Len(pat) - 1 <= Len(s)
    /\ \A k \in 1..Len(pat) : s[i + k - 1] = pat[k]

\* str.replace(pat, rep) for a pattern no two occurrences of which can overlap
\* (one code point, or &nbsp; whose first code point occurs nowhere else in it):
\* every occurrence is replaced, and a code point is dropped when an occurrence
\* that starts before it covers it
Replace(s, pat, rep) ==
    LET covered(k) == \E m \in (k - Len(pat) + 1)..(k - 1) : StartsWithAt(s, m, pat)
        pieces == [k \in 1..Len(s) |->
                      IF StartsWithAt(s, k, pat) THEN rep
                      ELSE IF covered(k) THEN <<>>
                      ELSE <<s[k]>>]
    IN  IF \E k \in 1..Len(s) : StartsWithAt(s, k, pat)
        THEN ConcatRange(pieces, 1, Len(s))
        ELSE s

Contains(s, pat) == \E i \in 1..Len(s) : StartsWithAt(s, i, pat)

Digits == {"0", "1", "2", "3", "4", "5", "6", "7", "8", "9"}
HexDigits == Digits \cup {"a", "b", "c", "d", "e", "f", "A", "B", "C", "D", "E", "F"}

\* the index of the first code point at or after i that is not in cls
\* (Len(s) + 1 when there is none)
SkipWhile(s, i, cls) ==
    IF i > Len(s) THEN i
    ELSE CHOOSE j \in i..(Len(s) + 1) :
            /\ j = Len(s) + 1 \/ s[j] \notin cls
            /\ \A k \in i..(j - 1) : s[k] \in cls

\* the first index at or after i that holds c, or 0
IndexOf(s, i, c) ==
    IF \E j \in i..Len(s) : s[j] = c
    THEN CHOOSE j \in i..Len(s) : s[j] = c /\ \A k \in i..(j - 1) : s[k] # c
    ELSE 0

----------------------------------------------------------------------------
(* fix_xml_encoding *)

AMP == <<"&">>
sAmpSemi == <<"a", "m", "p", ";">>
sLtSemi == <<"l", "t", ";">>
sGtSemi == <<"g", "t", ";">>
sQuotSemi == <<"q", "u", "o", "t", ";">>
sAposSemi == <<"a", "p", "o", "s", ";">>
sNbspEntity == <<"&", "n", "b", "s", "p", ";">>
sEscapedAmp == <<"&", "a", "m", "p", ";">>

\* a hash, decimal digits and a semicolon at index i
DecimalRefAt(s, i) ==
    /\ StartsWithAt(s, i, <<"#">>)
    /\ LET j == SkipWhile(s, i + 1, Digits)
       IN  j > i + 1 /\ StartsWithAt(s, j, <<";">>)

\* a hash, x, hexadecimal digits and a semicolon at index i
HexRefAt(s, i) ==
    /\ StartsWithAt(s, i, <<"#", "x">>)
    /\ LET j == SkipWhile(s, i + 2, HexDigits)
       IN  j > i + 2 /\ StartsWithAt(s, j, <<";">>)

\* a variant whose lookahead recognizes nothing
NoEntityRecognized(s, i) == FALSE

\* the alternatives of the negative lookahead of line 27
RecognizedEntityAt(s, i) ==
    \/ StartsWithAt(s, i, sAmpSemi)
    \/ StartsWithAt(s, i, sLtSemi)
    \/ StartsWithAt(s, i, sGtSemi)
    \/ StartsWithAt(s, i, sQuotSemi)
    \/ StartsWithAt(s, i, sAposSemi)
    \/ DecimalRefAt(s, i)
    \/ HexRefAt(s, i)

\* re.sub of line 27: every ampersand the lookahead does not recognise becomes &amp;
EscapeAmpersands(s) ==
    LET pieces == [k \in 1..Len(s) |->
                      IF s[k] = "&" /\ ~RecognizedEntityAt(s, k + 1)
                      THEN sEscapedAmp ELSE <<s[k]>>]
    IN  ConcatRange(pieces, 1, Len(s))

\* the chain of str.replace calls, in the order of the source
TypographyReplacements ==
    << <<sNbspEntity, <<" ">> >>,
       << <<"U+2019">>, <<"'">> >>,
       << <<"U+201C">>, <<"\"">> >>,
       << <<"U+201D">>, <<"\"">> >>,
       << <<"U+2013">>, <<"-">> >>,
       << <<"U+2014">>, <<"-">> >>,
       << <<"U+00A0">>, <<" ">> >>,
       << <<"U+2026">>, <<".", ".", ".">> >>,
       << <<"U+2018">>, <<"'">> >>,
       << <<"U+2019">>, <<"'">> >>,
       << <<"U+201C">>, <<"\"">> >>,
       << <<"U+201D">>, <<"\"">> >> >>

\* the first n replacements of the chain applied to s, in order
RECURSIVE ApplyReplacements(_, _, _)
ApplyReplacements(s, reps, n) ==
    IF n = 0 THEN s
    ELSE Replace(ApplyReplacements(s, reps, n - 1), reps[n][1], reps[n][2])

fix_xml_encoding(content) ==
    ApplyReplacements(EscapeAmpersands(content), TypographyReplacements,
                      Len(TypographyReplacements))

----------------------------------------------------------------------------
(* Code points *)

LowerLetters ==
    {"a", "b", "c", "d", "e", "f", "g", "h", "i", "j", "k", "l", "m",
     "n", "o", "p", "q", "r", "s", "t", "u", "v", "w", "x", "y", "z"}
UpperLetters ==
    {"A", "B", "C", "D", "E", "F", "G", "H", "I", "J", "K", "L", "M",
     "N", "O", "P", "Q", "R", "S", "T", "U", "V", "W", "X", "Y", "Z"}
Letters == LowerLetters \cup UpperLetters

UpperToLower ==
    [c \in UpperLetters |->
        CASE c = "A" -> "a" [] c = "B" -> "b" [] c = "C" -> "c" [] c = "D" -> "d"
          [] c = "E" -> "e" [] c = "F" -> "f" [] c = "G" -> "g" [] c = "H" -> "h"
          [] c = "I" -> "i" [] c = "J" -> "j" [] c = "K" -> "k" [] c = "L" -> "l"
          [] c = "M" -> "m" [] c = "N" -> "n" [] c = "O" -> "o" [] c = "P" -> "p"
          [] c = "Q" -> "q" [] c = "R" -> "r" [] c = "S" -> "s" [] c = "T" -> "t"
          [] c = "U" -> "u" [] c = "V" -> "v" [] c = "W" -> "w" [] c = "X" -> "x"
          [] c = "Y" -> "y" [] c = "Z" -> "z"]

Lower(c) == IF c \in UpperLetters THEN UpperToLower[c] ELSE c

\* the value of a hexadecimal digit
HexValue(c) ==
    CASE c = "0" -> 0 [] c = "1" -> 1 [] c = "2" -> 2 [] c = "3" -> 3 [] c = "4" -> 4
      [] c = "5" -> 5 [] c = "6" -> 6 [] c = "7" -> 7 [] c = "8" -> 8 [] c = "9" -> 9
      [] c \in {"a", "A"} -> 10 [] c \in {"b", "B"} -> 11 [] c \in {"c", "C"} -> 12
      [] c \in {"d", "D"} -> 13 [] c \in {"e", "E"} -> 14 [] c \in {"f", "F"} -> 15

\* int(digits, base)
RECURSIVE NumberValue(_, _, _)
NumberValue(digits, base, acc) ==
    IF digits = <<>> THEN acc
    ELSE NumberValue(Tail(digits), base, acc * base + HexValue(Head(digits)))

\* chr(n): the code points the texts of the model use are written as themselves,
\* any other by its number
Chr(n) ==
    CASE n = 9 -> "\t" [] n = 10 -> "\n" [] n = 12 -> "\f" [] n = 13 -> "\r" [] n = 32 -> " "
      [] n = 34 -> "\"" [] n = 38 -> "&" [] n = 39 -> "'" [] n = 60 -> "<"
      [] n = 62 -> ">" [] n = 65 -> "A" [] n = 160 -> "U+00A0"
      [] n = 8211 -> "U+2013" [] n = 8212 -> "U+2014" [] n = 8216 -> "U+2018"
      [] n = 8217 -> "U+2019" [] n = 8220 -> "U+201C" [] n = 8221 -> "U+201D"
      [] n = 8230 -> "U+2026"
      [] OTHER -> "chr" \o ToString(n)

----------------------------------------------------------------------------
(* xml.etree.ElementTree.fromstring, for documents made of elements,        *)
(* attributes, character data and references (no comments, processing      *)
(* instructions, CDATA sections, DOCTYPE or namespace prefixes).            *)
(* The result is [ok, elems]: ok = FALSE stands for ET.ParseError; elems    *)
(* lists the elements in document order, each with its tag, its attributes *)
(* (decoded), its depth (the root has depth 0) and the offset of its start *)
(* tag in the text.                                                        *)

XmlWhitespace == {" ", "\t", "\n", "\r"}
NameStartChars == Letters \cup {"_"}
NameChars == NameStartChars \cup Digits \cup {"-", "."}

\* a character reference must name a legal XML character
LegalXmlChar(n) == n \in {9, 10, 13} \/ (n >= 32 /\ n <= 1114111)

\* the reference that starts at the "&" at index i: [ok, text, next]
XmlReference(s, i) ==
    IF StartsWithAt(s, i + 1, sAmpSemi) THEN [ok |-> TRUE, text |-> <<"&">>, next |-> i + 5]
    ELSE IF StartsWithAt(s, i + 1, sLtSemi) THEN [ok |-> TRUE, text |-> <<"<">>, next |-> i + 4]
    ELSE IF StartsWithAt(s, i + 1, sGtSemi) THEN [ok |-> TRUE, text |-> <<">">>, next |-> i + 4]
    ELSE IF StartsWithAt(s, i + 1, sQuotSemi) THEN [ok |-> TRUE, text |-> <<"\"">>, next |-> i + 6]
    ELSE IF StartsWithAt(s, i + 1, sAposSemi) THEN [ok |-> TRUE, text |-> <<"'">>, next |-> i + 6]
    ELSE IF DecimalRefAt(s, i + 1)
         THEN LET j == SkipWhile(s, i + 2, Digits)
                  n == NumberValue(SubSeq(s, i + 2, j - 1), 10, 0)
              IN  [ok |-> LegalXmlChar(n), text |-> <<Chr(n)>>, next |-> j + 1]
    ELSE IF HexRefAt(s, i + 1)
         THEN LET j == SkipWhile(s, i + 3, HexDigits)
                  n == NumberValue(SubSeq(s, i + 3, j - 1), 16, 0)
              IN  [ok |-> LegalXmlChar(n), text |-> <<Chr(n)>>, next |-> j + 1]
    ELSE [ok |-> FALSE, text |-> <<>>, next |-> i]

\* is index k inside a reference that starts at an earlier index at or after lo?
\* (a reference holds no ampersand but its first code point)
InsideReference(s, lo, k) ==
    \E a \in lo..(k - 1) : s[a] = "&" /\ XmlReference(s, a).ok /\ XmlReference(s, a).next > k

\* the run lo..hi is character data: every ampersand in it starts a reference
WellFormedRun(s, lo, hi) ==
    \A k \in lo..hi : s[k] = "&" => XmlReference(s, k).ok

\* an attribute value from index i up to the closing quote q: [ok, text, next];
\* the value holds no <, its references are replaced and its white space
\* becomes spaces
XmlAttrValue(s, i, q) ==
    LET c == IndexOf(s, i, q)
        pieces == [k \in i..(c - 1) |->
                      IF s[k] = "&" THEN XmlReference(s, k).text
                      ELSE IF InsideReference(s, i, k) THEN <<>>
                      ELSE IF s[k] \in {"\t", "\n", "\r"} THEN <<" ">>
                      ELSE <<s[k]>>]
    IN  IF c = 0 \/ (\E k \in i..(c - 1) : s[k] = "<") \/ ~WellFormedRun(s, i, c - 1)
        THEN [ok |-> FALSE, text |-> <<>>, next |-> i]
        ELSE [ok |-> TRUE, text |-> ConcatRange(pieces, i, c - 1), next |-> c + 1]

AttrNames(attrs) == { attrs[k][1] : k \in 1..Len(attrs) }

\* the attributes of a start tag from index i (just after the element name) to
\* its end: [ok, attrs, next, empty]; empty = TRUE for the <.../> form
RECURSIVE XmlAttributes(_, _, _)
XmlAttributes(s, i, attrs) ==
    LET w == SkipWhile(s, i, XmlWhitespace)
        bad == [ok |-> FALSE, attrs |-> attrs, next |-> w, empty |-> FALSE]
    IN  IF StartsWithAt(s, w, <<">">>)
        THEN [ok |-> TRUE, attrs |-> attrs, next |-> w + 1, empty |-> FALSE]
        ELSE IF StartsWithAt(s, w, <<"/", ">">>)
        THEN [ok |-> TRUE, attrs |-> attrs, next |-> w + 2, empty |-> TRUE]
        ELSE IF w = i \/ w > Len(s) \/ s[w] \notin NameStartChars THEN bad
        ELSE LET n == SkipWhile(s, w, NameChars)
                 name == SubSeq(s, w, n - 1)
                 e == SkipWhile(s, n, XmlWhitespace)
                 v == SkipWhile(s, e + 1, XmlWhitespace)
             IN  IF ~StartsWithAt(s, e, <<"=">>) \/ v > Len(s)
                    \/ s[v] \notin {"\"", "'"} \/ name \in AttrNames(attrs)
                 THEN bad
                 ELSE LET val == XmlAttrValue(s, v + 1, s[v])
                      IN  IF val.ok
                          THEN XmlAttributes(s, val.next, Append(attrs, <<name, val.text>>))
                          ELSE bad

RECURSIVE XmlScan(_, _, _, _)
XmlScan(s, i, stack, elems) ==
    LET bad == [ok |-> FALSE, elems |-> elems]
    IN  IF i > Len(s) THEN [ok |-> stack = <<>> /\ elems # <<>>, elems |-> elems]
        ELSE IF StartsWithAt(s, i, <<"<", "/">>)
        THEN LET n == SkipWhile(s, i + 2, NameChars)
                 e == SkipWhile(s, n, XmlWhitespace)
             IN  IF stack # <<>> /\ SubSeq(s, i + 2, n - 1) = stack[Len(stack)]
                    /\ StartsWithAt(s, e, <<">">>)
                 THEN XmlScan(s, e + 1, SubSeq(stack, 1, Len(stack) - 1), elems)
                 ELSE bad
        ELSE IF s[i] = "<"
        THEN IF i + 1 > Len(s) \/ s[i + 1] \notin NameStartChars
                \/ (stack = <<>> /\ elems # <<>>)
             THEN bad
             ELSE LET n == SkipWhile(s, i + 1, NameChars)
                      tag == SubSeq(s, i + 1, n - 1)
                      a == XmlAttributes(s, n, <<>>)
                      el == [tag |-> tag, attrs |-> a.attrs, depth |-> Len(stack), pos |-> i]
                  IN  IF a.ok
                      THEN XmlScan(s, a.next,
                                   IF a.empty THEN stack ELSE Append(stack, tag),
                                   Append(elems, el))
                      ELSE bad
        ELSE LET lt == IndexOf(s, i, "<")
                 j == IF lt = 0 THEN Len(s) + 1 ELSE lt
             IN  IF stack = <<>>
                 THEN IF \A k \in i..(j - 1) : s[k] \in XmlWhitespace
                      THEN XmlScan(s, j, stack, elems) ELSE bad
                 ELSE IF WellFormedRun(s, i, j - 1)
                      THEN XmlScan(s, j, stack, elems) ELSE bad

ET_fromstring(text) == XmlScan(text, 1, <<>>, <<>>)

sOutline == <<"o", "u", "t", "l", "i", "n", "e">>

\* root.findall('.//outline'): the descendants of the root named outline, in
\* document order
FindAllOutlines(tree) ==
    SelectSeq(tree.elems, LAMBDA el : el.depth > 0 /\ el.tag = sOutline)

\* outline.get(name): the value, or None (here the record absent)
HasAttr(el, name) == \E k \in 1..Len(el.attrs) : el.attrs[k][1] = name
GetAttr(el, name, default) ==
    IF HasAttr(el, name)
    THEN el.attrs[CHOOSE k \in 1..Len(el.attrs) : el.attrs[k][1] = name][2]
    ELSE default

----------------------------------------------------------------------------
(* html.unescape, with the named references amp, lt, gt, quot, apos, nbsp  *)
(* (of html.entities.html5, those that the texts of the model can spell).  *)

\* html5: with and without the semicolon, as the table lists them
Html5 ==
    << <<sAmpSemi, "&">>, <<sLtSemi, "<">>, <<sGtSemi, ">">>, <<sQuotSemi, "\"">>,
       <<sAposSemi, "'">>, << <<"n", "b", "s", "p", ";">>, "U+00A0">>,
       << <<"a", "m", "p">>, "&">>, << <<"l", "t">>, "<">>, << <<"g", "t">>, ">">>,
       << <<"q", "u", "o", "t">>, "\"">>, << <<"n", "b", "s", "p">>, "U+00A0">> >>

InHtml5(name) == \E k \in 1..Len(Html5) : Html5[k][1] = name
Html5Value(name) == Html5[CHOOSE k \in 1..Len(Html5) : Html5[k][1] = name][2]

\* the code points that end the name of a named reference
EntityNameStop == {"\t", "\n", "\f", " ", "<", "&", "#", ";"}

\* the index after the run of at most limit code points, from index i, that are
\* not in stop
SkipUntil(s, i, stop, limit) ==
    LET hi == IF i + limit <= Len(s) + 1 THEN i + limit ELSE Len(s) + 1
    IN  IF i > Len(s) THEN i
        ELSE CHOOSE j \in i..hi :
                /\ j = hi \/ s[j] \in stop
                /\ \A k \in i..(j - 1) : s[k] \notin stop

\* for x in range(len(s)-1, 1, -1): if s[:x] in html5: return html5[s[:x]] + s[x:]
RECURSIVE Html5Prefix(_, _)
Html5Prefix(name, x) ==
    IF x <= 1 THEN <<"&">> \o name
    ELSE IF InHtml5(SubSeq(name, 1, x))
         THEN <<Html5Value(SubSeq(name, 1, x))>> \o SubSeq(name, x + 1, Len(name))
         ELSE Html5Prefix(name, x - 1)

\* _replace_charref for the numeric forms (the texts of the model spell no
\* reference in 128..159, which html.unescape reads as cp1252, and no non-character)
NumericCharRef(n) ==
    IF (n >= 55296 /\ n <= 57343) \/ n > 1114111 THEN <<"U+FFFD">>
    ELSE IF n = 0 THEN <<"U+FFFD">>
    ELSE IF n \in (1..8) \cup (14..31) \cup {11, 127} THEN <<>>
    ELSE <<Chr(n)>>

OptionalSemi(s, j) == IF StartsWithAt(s, j, <<";">>) THEN j + 1 ELSE j

\* the match of the character-reference pattern at the ampersand at index i:
\* [text, next], the replacement and the index after the match (no match: the
\* ampersand stays)
CharRefAt(s, i) ==
    IF StartsWithAt(s, i + 1, <<"#">>) /\ SkipWhile(s, i + 2, Digits) > i + 2
    THEN LET j == SkipWhile(s, i + 2, Digits)
         IN  [text |-> NumericCharRef(NumberValue(SubSeq(s, i + 2, j - 1), 10, 0)),
              next |-> OptionalSemi(s, j)]
    ELSE IF (StartsWithAt(s, i + 1, <<"#", "x">>) \/ StartsWithAt(s, i + 1, <<"#", "X">>))
            /\ SkipWhile(s, i + 3, HexDigits) > i + 3
    THEN LET j == SkipWhile(s, i + 3, HexDigits)
         IN  [text |-> NumericCharRef(NumberValue(SubSeq(s, i + 3, j - 1), 16, 0)),
              next |-> OptionalSemi(s, j)]
    ELSE LET j == SkipUntil(s, i + 1, EntityNameStop, 32)
             k == OptionalSemi(s, j)
             name == SubSeq(s, i + 1, k - 1)
         IN  IF j = i + 1 THEN [text |-> <<"&">>, next |-> i + 1]
             ELSE IF InHtml5(name) THEN [text |-> <<Html5Value(name)>>, next |-> k]
             ELSE [text |-> Html5Prefix(name, Len(name) - 1), next |-> k]

\* html.unescape: every match of the pattern is replaced.  A match holds no
\* ampersand but its first code point, so every ampersand starts its own match
\* and a code point is dropped when the match of an earlier ampersand covers it.
html_unescape(s) ==
    LET covered(k) == \E a \in 1..(k - 1) : s[a] = "&" /\ CharRefAt(s, a).next > k
        pieces == [k \in 1..Len(s) |->
                      IF s[k] = "&" THEN CharRefAt(s, k).text
                      ELSE IF covered(k) THEN <<>>
                      ELSE <<s[k]>>]
    IN  IF \E i \in 1..Len(s) : s[i] = "&" THEN ConcatRange(pieces, 1, Len(s)) ELSE s

----------------------------------------------------------------------------
(* Feed records.  via, src and at are not fields of the program's          *)
(* dictionaries: via is the path that made the record, src is the offset, in the text that was scanned, where the element or   *)
(* the match the record was made from starts, and at the offset where its  *)
(* url was found (the element again, or the xmlUrl literal of the match).  *)

sXmlUrl == <<"x", "m", "l", "U", "r", "l">>
sText == <<"t", "e", "x", "t">>
sTitle == <<"t", "i", "t", "l", "e">>
sDescription == <<"d", "e", "s", "c", "r", "i", "p", "t", "i", "o", "n">>
sType == <<"t", "y", "p", "e">>
sRss == <<"r", "s", "s">>

FeedRecord(title, description, url, type, category, via, src, at) ==
    [title |-> title, description |-> description, url |-> url, type |-> type,
     category |-> category, via |-> via, src |-> src, at |-> at]

\* the five fields of the program's dictionary
Fields(r) ==
    [title |-> r.title, description |-> r.description, url |-> r.url, type |-> r.type,
     category |-> r.category]

FieldsOf(records) == [k \in 1..Len(records) |-> Fields(records[k])]

\* Path(file_path).stem: the last component without its last suffix
Stem(path) == path.name

----------------------------------------------------------------------------
(* parse_opml_file: the loop over root.findall('.//outline') *)

\* title = outline.get('text') or outline.get('title', '')
PrimaryTitle(outline) ==
    IF GetAttr(outline, sText, <<>>) # <<>> THEN GetAttr(outline, sText, <<>>)
    ELSE GetAttr(outline, sTitle, <<>>)

\* the body of the loop for one outline: the records it appends
PrimaryRecords(outline, category) ==
    LET xml_url == GetAttr(outline, sXmlUrl, <<>>)
        title == PrimaryTitle(outline)
        description == GetAttr(outline, sDescription, <<>>)
        feed_type == GetAttr(outline, sType, sRss)
    IN  IF xml_url # <<>>
        THEN << FeedRecord(IF title # <<>> THEN html_unescape(title) ELSE <<>>,
                           IF description # <<>> THEN html_unescape(description) ELSE <<>>,
                           xml_url, feed_type, category, "primary", outline.pos,
                           outline.pos) >>
        ELSE <<>>

\* a variant that puts each new record in front of the list
RECURSIVE PrimaryLoopReversed(_, _, _)
PrimaryLoopReversed(outlines, n, category) ==
    IF n = 0 THEN <<>>
    ELSE PrimaryRecords(outlines[n], category)
            \o PrimaryLoopReversed(outlines, n - 1, category)

\* the loop, over the first n outlines
RECURSIVE PrimaryLoop(_, _, _)
PrimaryLoop(outlines, n, category) ==
    IF n = 0 THEN <<>>
    ELSE PrimaryLoop(outlines, n - 1, category) \o PrimaryRecords(outlines[n], category)

----------------------------------------------------------------------------
(* parse_opml_file_fallback: the pattern of line 126, compiled with        *)
(* IGNORECASE and DOTALL, and the searches inside each match.  The pattern *)
(* is: the literal <outline, one or more whitespace, a lazy run of code    *)
(* points other than >, the literal xmlUrl= and a double quote, the group  *)
(* (a run of code points other than the double quote), a double quote, a   *)
(* lazy run of code points other than >, and >.                            *)

\* \s of a str pattern, among the code points of the model
RegexWhitespace == {" ", "\t", "\n", "\r", "\f", "U+00A0"}

StartsWithAtIgnoreCase(s, i, pat) ==
    /\ i >= 1
    /\ i + Len(pat) - 1 <= Len(s)
    /\ \A k \in 1..Len(pat) : Lower(s[i + k - 1]) = Lower(pat[k])

sOutlineOpen == <<"<", "o", "u", "t", "l", "i", "n", "e">>
sXmlUrlEq == <<"x", "m", "l", "U", "r", "l", "=", "\"">>

\* the lazy run and the literal xmlUrl= with its quote, from index i: where the
\* literal starts, or 0
FindXmlUrl(s, i) ==
    LET gt == IndexOf(s, i, ">")
        hi == IF gt = 0 THEN Len(s) ELSE gt - 1
        starts == {q \in i..hi : StartsWithAtIgnoreCase(s, q, sXmlUrlEq)}
    IN  IF starts = {} THEN 0 ELSE Min(starts)

\* the match of the pattern that starts at index i: [ok, first, last, at, url]
OutlineMatchAt(s, i) ==
    LET none == [ok |-> FALSE, first |-> i, last |-> i, at |-> i, url |-> <<>>]
    IN  IF ~StartsWithAtIgnoreCase(s, i, sOutlineOpen) \/ i + 8 > Len(s)
           \/ s[i + 8] \notin RegexWhitespace
        THEN none
        ELSE LET q == FindXmlUrl(s, SkipWhile(s, i + 8, RegexWhitespace))
                 c == IF q = 0 THEN 0 ELSE IndexOf(s, q + 8, "\"")
                 e == IF c = 0 THEN 0 ELSE IndexOf(s, c + 1, ">")
             IN  IF e = 0 THEN none
                 ELSE [ok |-> TRUE, first |-> i, last |-> e, at |-> q,
                       url |-> SubSeq(s, q + 8, c - 1)]

\* re.finditer: the matches from left to right, none overlapping another
RECURSIVE FindIter(_, _)
FindIter(s, i) ==
    LET starts == {j \in i..Len(s) : OutlineMatchAt(s, j).ok}
    IN  IF starts = {} THEN <<>>
        ELSE LET m == OutlineMatchAt(s, Min(starts))
             IN  <<m>> \o FindIter(s, m.last + 1)

\* re.search of name= and a double-quoted value in outline_text: [found, value]
\* (the first place where name= and a double quote stand decides: were its value
\* not closed, no later place could stand, its own quote would close this one)
AttrSearch(outline_text, name) ==
    LET starts == {t \in 1..Len(outline_text) :
                      StartsWithAt(outline_text, t, name \o <<"=", "\"">>)}
        first == IF starts = {} THEN 0 ELSE Min(starts)
        c == IF first = 0 THEN 0 ELSE IndexOf(outline_text, first + Len(name) + 2, "\"")
    IN  IF c = 0 THEN [found |-> FALSE, value |-> <<>>]
        ELSE [found |-> TRUE, value |-> SubSeq(outline_text, first + Len(name) + 2, c - 1)]

\* the title the loop body computes for one match
FallbackTitle(outline_text) ==
    LET text_match == AttrSearch(outline_text, sText)
        title_match == AttrSearch(outline_text, sTitle)
        title == IF text_match.found THEN text_match.value ELSE <<>>
    IN  IF title = <<>> /\ title_match.found THEN title_match.value ELSE title

\* the body of the loop for one match: the records it appends
FallbackRecords(content, match, category) ==
    LET outline_text == SubSeq(content, match.first, match.last)
        xml_url == match.url
        title == FallbackTitle(outline_text)
        desc_match == AttrSearch(outline_text, sDescription)
        type_match == AttrSearch(outline_text, sType)
        description == IF desc_match.found THEN desc_match.value ELSE <<>>
        feed_type == IF type_match.found THEN type_match.value ELSE sRss
    IN  IF xml_url # <<>>
        THEN << FeedRecord(IF title # <<>> THEN html_unescape(title) ELSE <<>>,
                           IF description # <<>> THEN html_unescape(description) ELSE <<>>,
                           xml_url, feed_type, category, "fallback", match.first,
                           match.at) >>
        ELSE <<>>

\* the loop, over the first n matches
RECURSIVE FallbackLoop(_, _, _, _)
FallbackLoop(content, matches, n, category) ==
    IF n = 0 THEN <<>>
    ELSE FallbackLoop(content, matches, n - 1, category)
            \o FallbackRecords(content, matches[n], category)

\* the pattern scan of a whole text
PatternScan(content, category) ==
    LET matches == FindIter(content, 1)
    IN  FallbackLoop(content, matches, Len(matches), category)

----------------------------------------------------------------------------
(* Documents.  A document is written from a sequence of tags; the text of  *)
(* the file is their rendering.  The body of a document is made of at most *)
(* MaxItems entries of a catalogue.                                        *)

Attr(name, value) == [name |-> name, value |-> value]
Tag(kind, name, attrs) == [kind |-> kind, name |-> name, attrs |-> attrs]

\* name="value", after one space
RenderAttr(a) == <<" ">> \o a.name \o <<"=", "\"">> \o a.value \o <<"\"">>

RenderAttrs(attrs) == Concat([k \in 1..Len(attrs) |-> RenderAttr(attrs[k])])

\* kind open: <name attrs>; empty: <name attrs/>; close: </name>;
\* unterminated: <name attrs with no > after it
Render(tag) ==
    CASE tag.kind = "close" -> <<"<", "/">> \o tag.name \o <<">">>
      [] tag.kind = "open" -> <<"<">> \o tag.name \o RenderAttrs(tag.attrs) \o <<">">>
      [] tag.kind = "empty" -> <<"<">> \o tag.name \o RenderAttrs(tag.attrs) \o <<"/", ">">>
      [] tag.kind = "unterminated" -> <<"<">> \o tag.name \o RenderAttrs(tag.attrs)

RenderAll(tags) == Concat([k \in 1..Len(tags) |-> Render(tags[k])])

\* the offset in RenderAll(tags) where the k-th tag starts
RECURSIVE TagOffset(_, _)
TagOffset(tags, k) ==
    IF k = 1 THEN 1 ELSE TagOffset(tags, k - 1) + Len(Render(tags[k - 1]))

\* the tag whose rendering holds the offset
TagAt(tags, offset) ==
    tags[CHOOSE k \in 1..Len(tags) :
            /\ TagOffset(tags, k) <= offset
            /\ offset < TagOffset(tags, k) + Len(Render(tags[k]))]

\* the value of the attribute of that exact name in a tag, or the default
TagAttr(tag, name, default) ==
    IF \E k \in 1..Len(tag.attrs) : tag.attrs[k].name = name
    THEN tag.attrs[CHOOSE k \in 1..Len(tag.attrs) : tag.attrs[k].name = name].value
    ELSE default

sOpml == <<"o", "p", "m", "l">>
sBody == <<"b", "o", "d", "y">>
sSubtitle == <<"s", "u", "b", "t", "i", "t", "l", "e">>
sOldXmlUrl == <<"o", "l", "d", "x", "m", "l", "U", "r", "l">>

vTech == <<"T", "e", "c", "h">>
vUrlA == <<"h", "t", "t", "p", ":", "/", "/", "a", ".", "c", "o", "m", "/", "r", "s", "s">>
vFallbackName == <<"F", "a", "l", "l", "b", "a", "c", "k", " ", "N", "a", "m", "e">>
vUrlC == <<"h", "t", "t", "p", ":", "/", "/", "c", ".", "c", "o", "m">>
vE == <<"E">>
vNews == <<"N", "e", "w", "s">>
vP == <<"P">>
vUrlP == <<"h", "t", "t", "p", ":", "/", "/", "p">>
vC == <<"C">>
vUrlPC == <<"h", "t", "t", "p", ":", "/", "/", "p", "/", "c">>
vQandA == <<"Q", "&", "A", " ", "W", "e", "e", "k", "l", "y">>
vUrlQ == <<"h", "t", "t", "p", ":", "/", "/", "q">>
vU == <<"U">>
vUrlAmp == <<"h", "t", "t", "p", ":", "/", "/", "u", "/", "?", "a", "=", "1", "&", "a", "m",
    "p", ";", "b", "=", "2">>
vGt == <<"a", ">", "b">>
vUrlG == <<"h", "t", "t", "p", ":", "/", "/", "g">>
vS == <<"S">>
vT == <<"T">>
vUrlS == <<"h", "t", "t", "p", ":", "/", "/", "s">>
vO == <<"O">>
vUrlO == <<"h", "t", "t", "p", ":", "/", "/", "o">>
vX == <<"X">>
vUrlB == <<"h", "t", "t", "p", ":", "/", "/", "b", ".", "c", "o", "m", "/", "f", "e", "e", "d">>
vFolder == <<"F", "o", "l", "d", "e", "r">>
vSmart == <<"I", "t", "U+2019", "s">>
vUrlM == <<"h", "t", "t", "p", ":", "/", "/", "m">>
vD == <<"D">>
vDesc == <<"d", " ", "&", "a", "m", "p", ";", "a", "m", "p", ";", " ", "e">>
vAtom == <<"a", "t", "o", "m">>
vUrlD == <<"h", "t", "t", "p", ":", "/", "/", "d">>

Feed(attrs) == Tag("empty", sOutline, attrs)

\* an outline with text and xmlUrl
eFeed == << Feed(<<Attr(sText, vTech), Attr(sXmlUrl, vUrlA)>>) >>
\* an empty text, a title
eTitleOnly ==
    << Feed(<<Attr(sText, <<>>), Attr(sTitle, vFallbackName), Attr(sXmlUrl, vUrlC)>>) >>
\* an empty xmlUrl
eEmptyUrl == << Feed(<<Attr(sText, vE), Attr(sXmlUrl, <<>>)>>) >>
\* a folder that holds a feed that holds a feed
eNested ==
    << Tag("open", sOutline, <<Attr(sText, vNews)>>),
       Tag("open", sOutline, <<Attr(sText, vP), Attr(sXmlUrl, vUrlP)>>),
       Feed(<<Attr(sTitle, vC), Attr(sXmlUrl, vUrlPC)>>),
       Tag("close", sOutline, <<>>),
       Tag("close", sOutline, <<>>) >>
\* an ampersand that is not escaped
eBareAmp == << Feed(<<Attr(sText, vQandA), Attr(sXmlUrl, vUrlQ)>>) >>
\* an escaped ampersand in the url
eAmpUrl == << Feed(<<Attr(sText, vU), Attr(sXmlUrl, vUrlAmp)>>) >>
\* a > in an attribute value
eGtInValue == << Feed(<<Attr(sText, vGt), Attr(sXmlUrl, vUrlG)>>) >>
\* an attribute whose name ends in title, before title
eSubtitle ==
    << Feed(<<Attr(sSubtitle, vS), Attr(sTitle, vT), Attr(sXmlUrl, vUrlS)>>) >>
\* an attribute whose name ends in xmlUrl, and no xmlUrl
eOtherUrl == << Feed(<<Attr(sText, vO), Attr(sOldXmlUrl, vUrlO)>>) >>
\* a feed whose element is never closed
eUnclosed == << Tag("open", sOutline, <<Attr(sText, vX), Attr(sXmlUrl, vUrlB)>>) >>
\* a tag that is cut short
eCutShort == << Tag("unterminated", sOutline, <<Attr(sText, vFolder)>>) >>
\* typography the normalizer rewrites
eSmart == << Feed(<<Attr(sText, vSmart), Attr(sXmlUrl, vUrlM)>>) >>
\* a description with a doubly escaped ampersand, and a type
eDescribed ==
    << Feed(<<Attr(sText, vD), Attr(sDescription, vDesc), Attr(sType, vAtom),
              Attr(sXmlUrl, vUrlD)>>) >>

Catalogue ==
    { eFeed, eTitleOnly, eEmptyUrl, eNested, eBareAmp, eAmpUrl, eGtInValue, eSubtitle,
      eOtherUrl, eUnclosed, eCutShort, eSmart, eDescribed }

Wrap(items) ==
    << Tag("open", sOpml, <<>>), Tag("open", sBody, <<>>) >>
        \o Concat(items)
        \o << Tag("close", sBody, <<>>), Tag("close", sOpml, <<>>) >>

Documents ==
    { Wrap(items) : items \in UNION { [1..n -> Catalogue] : n \in 0..MaxItems } }

FilePaths ==
    { [parent |-> "recommended/with_category", name |-> <<"n", "e", "w", "s">>,
       suffix |-> ".opml"] }

----------------------------------------------------------------------------
(* parse_opml_file, one call *)

\* every exception of the model is a subclass of Exception
Exceptions == {"ParseError", "OSError", "UnicodeDecodeError", "MemoryError"}

NoRoot == [ok |-> FALSE, elems |-> <<>>]

InitOpml ==
    /\ file_path \in FilePaths
    /\ doc_tags \in Documents
    /\ file_text = RenderAll(doc_tags)
    /\ pc = "START"
    /\ xml_content = <<>>
    /\ root = NoRoot
    /\ feeds = <<>>
    /\ raised = "none"
    /\ fallback_outcome = "none"
    /\ reported = <<>>
    /\ trace = <<"START">>
    /\ returned = FALSE
    /\ result = <<>>
    /\ escaped = FALSE

\* a variant whose second except clause is missing
PrimaryHandlerParseErrorOnly(exc) ==
    IF exc = "ParseError" THEN "fallback" ELSE "propagate"

\* a variant that sends every exception to the fallback
PrimaryHandlerAlwaysFallback(exc) ==
    IF exc \in {"ParseError", "OSError", "UnicodeDecodeError", "MemoryError"}
    THEN "fallback" ELSE "propagate"

\* which except clause of the try of lines 59-103 takes the exception:
\* ET.ParseError goes to the fallback, any other Exception is reported
PrimaryHandler(exc) ==
    IF exc = "ParseError" THEN "fallback"
    ELSE IF exc \in Exceptions THEN "report"
    ELSE "propagate"

\* the try block raises exc
Raise(exc) ==
    /\ raised' = exc
    /\ trace' = Append(trace, "PRIMARY_FAILED")
    /\ CASE PrimaryHandler(exc) = "fallback" ->
                /\ reported' = Append(reported, "Error parsing")
                /\ pc' = "FALLBACK"
                /\ UNCHANGED escaped
         [] PrimaryHandler(exc) = "report" ->
                /\ reported' = Append(reported, "Error processing")
                /\ pc' = "RETURN"
                /\ UNCHANGED escaped
         [] OTHER ->
                /\ pc' = "DONE"
                /\ escaped' = TRUE
                /\ UNCHANGED reported

\* lines 61-62: open and read the file
ReadFile ==
    /\ pc = "START"
    /\ \E exc \in {"none", "OSError", "UnicodeDecodeError"} :
          IF exc = "none"
          THEN /\ xml_content' = file_text
               /\ pc' = "READ"
               /\ UNCHANGED <<raised, reported, trace, escaped>>
          ELSE /\ Raise(exc)
               /\ UNCHANGED xml_content
    /\ UNCHANGED <<file_path, doc_tags, file_text, root, feeds, fallback_outcome,
                   returned, result>>
    /\ UNCHANGED <<norm_vars, post_vars>>

\* line 65
Normalize ==
    /\ pc = "READ"
    /\ \E exc \in {"none", "MemoryError"} :
          IF exc = "none"
          THEN /\ xml_content' = fix_xml_encoding(xml_content)
               /\ pc' = "NORMALIZED"
               /\ trace' = Append(trace, "NORMALIZED")
               /\ UNCHANGED <<raised, reported, escaped>>
          ELSE /\ Raise(exc)
               /\ UNCHANGED xml_content
    /\ UNCHANGED <<file_path, doc_tags, file_text, root, feeds, fallback_outcome,
                   returned, result>>
    /\ UNCHANGED <<norm_vars, post_vars>>

\* line 68
Parse ==
    /\ pc = "NORMALIZED"
    /\ LET r == ET_fromstring(xml_content)
       IN  IF r.ok
           THEN /\ root' = r
                /\ pc' = "PARSED"
                /\ UNCHANGED <<raised, reported, trace, escaped>>
           ELSE /\ Raise("ParseError")
                /\ UNCHANGED root
    /\ UNCHANGED <<file_path, doc_tags, file_text, xml_content, feeds, fallback_outcome,
                   returned, result>>
    /\ UNCHANGED <<norm_vars, post_vars>>

\* lines 71-93: the loop runs to its end, or an exception ends it after n outlines
Traverse ==
    /\ pc = "PARSED"
    /\ LET category == Stem(file_path)
           outlines == FindAllOutlines(root)
       IN  \E n \in 0..Len(outlines) :
              /\ feeds' = feeds \o PrimaryLoop(outlines, n, category)
              /\ IF n = Len(outlines)
                 THEN /\ pc' = "RETURN"
                      /\ trace' = Append(trace, "PRIMARY_OK")
                      /\ UNCHANGED <<raised, reported, escaped>>
                 ELSE Raise("MemoryError")
    /\ UNCHANGED <<file_path, doc_tags, file_text, xml_content, root, fallback_outcome,
                   returned, result>>
    /\ UNCHANGED <<norm_vars, post_vars>>

\* a variant that scans the text the primary path tried to parse
FallbackContentNormalized == xml_content

\* lines 121-122 of parse_opml_file_fallback: the text it scans
FallbackContent == file_text

\* lines 98-101, the call of parse_opml_file_fallback and the whole of it:
\*   raises      an exception leaves the function (lines 117-118 are outside
\*               its try) and the handler of line 100 reports it
\*   read_error  lines 121-122 raise, the handler of line 169 reports it and
\*               the function returns its empty list
\*   loop_error  the loop raises after n matches, likewise
\*   ok          the loop runs to its end
CallFallback ==
    /\ pc = "FALLBACK"
    /\ LET category == Stem(file_path)
           content == FallbackContent
           matches == FindIter(content, 1)
       IN  \E outcome \in {"ok", "raises", "read_error", "loop_error"} :
           \E n \in 0..Len(matches) :
              /\ outcome = "ok" => n = Len(matches)
              /\ outcome \in {"raises", "read_error"} => n = 0
              /\ outcome = "loop_error" => n < Len(matches)
              /\ fallback_outcome' = outcome
              /\ feeds' = feeds \o FallbackLoop(content, matches, n, category)
              /\ reported' =
                    IF outcome = "ok" THEN reported
                    ELSE IF outcome = "raises"
                    THEN Append(reported, "Fallback parsing also failed")
                    ELSE Append(reported, "Fallback parsing failed")
    /\ pc' = "RETURN"
    /\ trace' = Append(trace, "FALLBACK_ATTEMPTED")
    /\ UNCHANGED <<file_path, doc_tags, file_text, xml_content, root, raised,
                   returned, result, escaped>>
    /\ UNCHANGED <<norm_vars, post_vars>>

\* line 105
Return ==
    /\ pc = "RETURN"
    /\ result' = feeds
    /\ returned' = TRUE
    /\ pc' = "DONE"
    /\ trace' = Append(trace, "DONE")
    /\ UNCHANGED <<file_path, doc_tags, file_text, xml_content, root, feeds, raised,
                   fallback_outcome, reported, escaped>>
    /\ UNCHANGED <<norm_vars, post_vars>>

----------------------------------------------------------------------------
(* The normalizer applied, and applied again, to bounded input texts *)

NormFragments ==
    { AMP, sAmpSemi, <<"n", "b", "s", "p", ";">>, sNbspEntity, sLtSemi,
      <<"#", "3", "8">>, <<"#", "x">>, <<"F">>, <<";">>, <<"a">>,
      <<"U+2019">>, <<"U+201C">>, <<"U+2014">>, <<"U+2026">>, <<"U+00A0">> }

NormInputs ==
    { Concat(fs) : fs \in UNION { [1..n -> NormFragments] : n \in 0..MaxFrags } }

InitNorm ==
    /\ norm_in \in NormInputs
    /\ norm_runs = <<>>

\* one more application of fix_xml_encoding, to the input or to the last output
ApplyNormalizer ==
    /\ Len(norm_runs) < 2
    /\ norm_runs' = Append(norm_runs,
            fix_xml_encoding(IF norm_runs = <<>> THEN norm_in
                             ELSE norm_runs[Len(norm_runs)]))
    /\ UNCHANGED norm_in
    /\ UNCHANGED <<opml_vars, post_vars>>

----------------------------------------------------------------------------
(* post_rss_feeds.py *)

\* a field of a row: a string, or None for a field the line of the file lacks
Str(text) == [isNone |-> FALSE, text |-> text]
None == [isNone |-> TRUE, text |-> <<>>]

\* the characters str.strip() removes that the rows of the model hold
StripWhitespace == {" ", "\t", "\n", "\r", "\f", "U+00A0"}

\* str.strip()
Strip(s) ==
    LET keep == {k \in 1..Len(s) : s[k] \notin StripWhitespace}
    IN  IF keep = {} THEN <<>>
        ELSE SubSeq(s, Min(keep), CHOOSE k \in keep : \A j \in keep : j <= k)

sWww == <<"w", "w", "w", ".">>

\* urlparse(url).netloc: what follows the // after the scheme, up to the first
\* of / ? #
Netloc(url) ==
    LET colon == IndexOf(url, 1, ":")
        after == IF colon > 0
                    /\ colon > 1
                    /\ url[1] \in Letters
                    /\ \A k \in 1..(colon - 1) :
                          url[k] \in Letters \cup Digits \cup {"+", "-", "."}
                 THEN colon + 1 ELSE 1
    IN  IF StartsWithAt(url, after, <<"/", "/">>)
        THEN SubSeq(url, after + 2, SkipUntil(url, after + 2, {"/", "?", "#"}, Len(url)) - 1)
        ELSE <<>>

\* extract_domain
extract_domain(url) ==
    LET domain == Netloc(url)
    IN  IF StartsWithAt(domain, 1, sWww) THEN SubSeq(domain, 5, Len(domain)) ELSE domain

\* what requests.post does: a response with a status code, or a RequestException
Outcomes ==
    { [raises |-> FALSE, status_code |-> c] : c \in {200, 201, 404, 500} }
        \cup { [raises |-> TRUE, status_code |-> 0] }

\* post_rss_feed: the value it returns for an outcome of the request
post_rss_feed(outcome) == ~outcome.raises /\ outcome.status_code \in {200, 201}

Request(n, title, feed_url, domain, category_name) ==
    [kind |-> "request", row |-> n,
     payload |-> [title |-> title, feedUrl |-> feed_url, domain |-> domain,
                  categoryName |-> category_name]]

Sleep(n) == [kind |-> "sleep", row |-> n, payload |-> <<>>]

vFeedTitle == Str(<<"T", "1">>)
vPaddedTitle == Str(<<" ", "T", "2", "\t">>)
vBlank == Str(<<" ", "\t">>)
vEmpty == Str(<<>>)
vFeedUrl == Str(<<"h", "t", "t", "p", ":", "/", "/", "w", "w", "w", ".", "a", ".", "i", "o", "/", "f">>)
vPaddedUrl == Str(<<" ", "h", "t", "t", "p", "s", ":", "/", "/", "b", ".", "i", "o", "?", "x", " ">>)
vCategory == Str(<<"n", "e", "w", "s">>)

Row(title, url, category) == [title |-> title, url |-> url, category |-> category]

\* the rows of a file: complete ones, ones with a blank or empty field, and
\* one from a line with two fields only
CsvRows ==
    { Row(vFeedTitle, vFeedUrl, vCategory),
      Row(vPaddedTitle, vPaddedUrl, vCategory),
      Row(vBlank, vFeedUrl, vCategory),
      Row(vFeedTitle, vEmpty, vCategory),
      Row(vFeedTitle, vFeedUrl, vBlank),
      Row(vFeedTitle, vFeedUrl, None) }

CsvFiles == UNION { [1..n -> CsvRows] : n \in 0..MaxRows }

InitPost ==
    /\ rows \in CsvFiles
    /\ post_pc = "START"
    /\ row_i = 0
    /\ total_feeds = 0
    /\ successful_posts = 0
    /\ failed_posts = 0
    /\ events = <<>>

\* lines 93-99: open the file, read the rows, count them; FileNotFoundError
\* ends the call at line 131
OpenCsv ==
    /\ post_pc = "START"
    /\ \E exc \in {"none", "FileNotFoundError"} :
          IF exc = "none"
          THEN /\ total_feeds' = Len(rows)
               /\ post_pc' = "LOOP"
          ELSE /\ post_pc' = "RETURNED"
               /\ UNCHANGED total_feeds
    /\ UNCHANGED <<rows, row_i, successful_posts, failed_posts, events>>
    /\ UNCHANGED <<opml_vars, norm_vars>>

\* the row is skipped at line 108
Skipped(title, feed_url, category_name) ==
    title = <<>> \/ feed_url = <<>> \/ category_name = <<>>

\* lines 102-127, one iteration of the loop
ProcessRow ==
    /\ post_pc = "LOOP"
    /\ row_i < total_feeds
    /\ row_i' = row_i + 1
    /\ LET row == rows[row_i + 1]
       IN  IF row.title.isNone \/ row.url.isNone \/ row.category.isNone
           THEN \* None has no strip: the handler of line 132 ends the call
                /\ post_pc' = "RETURNED"
                /\ UNCHANGED <<successful_posts, failed_posts, events>>
           ELSE LET title == Strip(row.title.text)
                    feed_url == Strip(row.url.text)
                    category_name == Strip(row.category.text)
                IN  IF Skipped(title, feed_url, category_name)
                    THEN UNCHANGED <<post_pc, successful_posts, failed_posts, events>>
                    ELSE \E outcome \in Outcomes :
                         LET success == post_rss_feed(outcome)
                             sent == Append(events,
                                        Request(row_i + 1, title, feed_url,
                                                extract_domain(feed_url), category_name))
                         IN  /\ successful_posts' =
                                    IF success THEN successful_posts + 1
                                    ELSE successful_posts
                             /\ failed_posts' =
                                    IF success THEN failed_posts ELSE failed_posts + 1
                             /\ events' = IF row_i + 1 < total_feeds
                                          THEN Append(sent, Sleep(row_i + 1)) ELSE sent
                             /\ UNCHANGED post_pc
    /\ UNCHANGED <<rows, total_feeds>>
    /\ UNCHANGED <<opml_vars, norm_vars>>

\* lines 136-145: the loop is over, the summary is printed
Summary ==
    /\ post_pc = "LOOP"
    /\ row_i = total_feeds
    /\ post_pc' = "DONE"
    /\ UNCHANGED <<rows, row_i, total_feeds, successful_posts, failed_posts, events>>
    /\ UNCHANGED <<opml_vars, norm_vars>>

----------------------------------------------------------------------------
(* Specifications *)

\* the variables of a part that a specification does not run
IdleOpml ==
    /\ file_path = [parent |-> "", name |-> <<>>, suffix |-> ""]
    /\ doc_tags = <<>>
    /\ file_text = <<>>
    /\ pc = "IDLE"
    /\ xml_content = <<>>
    /\ root = NoRoot
    /\ feeds = <<>>
    /\ raised = "none"
    /\ fallback_outcome = "none"
    /\ reported = <<>>
    /\ trace = <<>>
    /\ returned = FALSE
    /\ result = <<>>
    /\ escaped = FALSE

IdleNorm ==
    /\ norm_in = <<>>
    /\ norm_runs = <<>>

IdlePost ==
    /\ rows = <<>>
    /\ post_pc = "IDLE"
    /\ row_i = 0
    /\ total_feeds = 0
    /\ successful_posts = 0
    /\ failed_posts = 0
    /\ events = <<>>

\* one call of parse_opml_file on every document
Init == InitOpml /\ IdleNorm /\ IdlePost
Next == ReadFile \/ Normalize \/ Parse \/ Traverse \/ CallFallback \/ Return
Spec == Init /\ [][Next]_vars

\* fix_xml_encoding on every input text
InitN == InitNorm /\ IdleOpml /\ IdlePost
NextN == ApplyNormalizer
SpecNorm == InitN /\ [][NextN]_vars

\* one call of post_all_feeds on every file
InitP == InitPost /\ IdleOpml /\ IdleNorm
NextP == OpenCsv \/ ProcessRow \/ Summary
SpecPost == InitP /\ [][NextP]_vars

----------------------------------------------------------------------------
(* Properties *)

Range(seq) == {seq[k] : k \in 1..Len(seq)}

RecordFields == {"title", "description", "url", "type", "category", "via", "src", "at"}

\* the positions of a call; each but DONE is the guard of one action
Positions == {"START", "READ", "NORMALIZED", "PARSED", "FALLBACK", "RETURN", "DONE"}

\* C1: parse_opml_file never lets an exception leave the call: whatever
\* fails (the read, the normalizer, the parse, the traversal, the fallback,
\* the fallback raising by itself), the call stands at a position it can
\* step from until it is DONE, and it is DONE only by returning a list of
\* records.
C1_NoExceptionEscapes ==
    /\ ~escaped
    /\ pc \in Positions
    /\ pc = "DONE" =>
          /\ returned
          /\ \A k \in 1..Len(result) : DOMAIN result[k] = RecordFields

\* the fallback itself raised, and the call returned all the same
C1_Witness ==
    /\ pc = "DONE"
    /\ returned
    /\ raised = "ParseError"
    /\ fallback_outcome = "raises"

\* C2, amended: after a structural parse error the fallback scans the raw
\* text of the file, not the normalized text; when it ends without an error
\* the records returned are those of the pattern scan of the raw text.
C2_FallbackScansRawText ==
    (pc = "DONE" /\ raised = "ParseError" /\ fallback_outcome = "ok") =>
        FieldsOf(result) = FieldsOf(PatternScan(file_text, Stem(file_path)))

\* the fallback found records in a file that the normalizer rewrites
C2_Witness ==
    /\ pc = "DONE"
    /\ raised = "ParseError"
    /\ fallback_outcome = "ok"
    /\ result # <<>>
    /\ xml_content # file_text

\* C2 as the specification states it: the records returned are those of the
\* pattern scan of the normalized text.
C2_FallbackScansNormalizedText ==
    (pc = "DONE" /\ raised = "ParseError" /\ fallback_outcome = "ok") =>
        FieldsOf(result) =
            FieldsOf(PatternScan(fix_xml_encoding(file_text), Stem(file_path)))

\* C3, amended: an error of the primary path that is not a structural parse
\* error is reported and ends the document without an attempt of the
\* fallback; the call returns the records the traversal had appended before
\* the error.  Only a structural parse error is followed by the fallback.
C3_OtherErrorsEndWithoutFallback ==
    /\ (pc = "DONE" /\ raised \notin {"none", "ParseError"}) =>
          /\ reported = <<"Error processing">>
          /\ "PRIMARY_FAILED" \in Range(trace)
          /\ "FALLBACK_ATTEMPTED" \notin Range(trace)
          /\ fallback_outcome = "none"
          /\ returned
          /\ \E n \in 0..Len(FindAllOutlines(root)) :
                result = PrimaryLoop(FindAllOutlines(root), n, Stem(file_path))
    /\ (pc = "DONE" /\ raised = "ParseError") =>
          /\ "FALLBACK_ATTEMPTED" \in Range(trace)
          /\ fallback_outcome # "none"

\* the traversal failed after it had appended a record
C3_Witness ==
    /\ pc = "DONE"
    /\ raised = "MemoryError"
    /\ result # <<>>

\* C3 as the specification states it: such an error is reported, counts as
\* zero records of the primary path and is followed by the fallback.
C3_OtherErrorsTriggerFallback ==
    (pc = "DONE" /\ raised \notin {"none", "ParseError"}) =>
        /\ reported # <<>>
        /\ "FALLBACK_ATTEMPTED" \in Range(trace)

\* C4: fix_xml_encoding is idempotent: applied to its own output it gives
\* that output again.
C4_Idempotent ==
    Len(norm_runs) = 2 => norm_runs[2] = norm_runs[1]

\* an input with the nbsp entity, an escaped entity and a smart quote, that
\* the first application rewrites
C4_Witness ==
    /\ Len(norm_runs) = 2
    /\ Contains(norm_in, sNbspEntity)
    /\ Contains(norm_in, sLtSemi)
    /\ Contains(norm_in, <<"U+2019">>)
    /\ norm_runs[1] # norm_in

Pairs(records) == { <<records[k].url, records[k].category>> : k \in 1..Len(records) }

\* C5 as the specification states it: on a well-formed document the url and
\* category pairs of the pattern scan include those of the primary path.
C5_FallbackCoversPrimary ==
    (pc = "DONE" /\ raised = "none" /\ ET_fromstring(file_text).ok) =>
        Pairs(result) \subseteq Pairs(PatternScan(file_text, Stem(file_path)))

\* the outline element or the tag a record was made from has a non-empty
\* xmlUrl attribute
SourceHasXmlUrl(r) ==
    IF r.via = "primary"
    THEN \E k \in 1..Len(root.elems) :
            /\ root.elems[k].pos = r.src
            /\ GetAttr(root.elems[k], sXmlUrl, <<>>) # <<>>
    ELSE TagAttr(TagAt(doc_tags, r.at), sXmlUrl, <<>>) # <<>>

\* C6 as the specification states it: every record has a non-empty url, and
\* no outline without a non-empty xmlUrl attribute gives a record.
C6_UrlRequired ==
    pc = "DONE" =>
        \A k \in 1..Len(result) :
            /\ result[k].url # <<>>
            /\ SourceHasXmlUrl(result[k])

\* C7 as the specification states it: every nbsp entity of the input comes
\* out as a space, that is, the output is that of the input with each nbsp
\* entity replaced by a space.
C7_NbspBecomesSpace ==
    Len(norm_runs) >= 1 =>
        norm_runs[1] = fix_xml_encoding(Replace(norm_in, sNbspEntity, <<" ">>))

\* the title the attributes named text and title of a tag give
TagTitle(tag) ==
    IF TagAttr(tag, sText, <<>>) # <<>> THEN TagAttr(tag, sText, <<>>)
    ELSE TagAttr(tag, sTitle, <<>>)

\* the title of the source of a record, decoded as both paths decode it
SourceTitle(r) ==
    IF r.via = "primary"
    THEN LET el == root.elems[CHOOSE k \in 1..Len(root.elems) : root.elems[k].pos = r.src]
         IN  html_unescape(PrimaryTitle(el))
    ELSE html_unescape(TagTitle(TagAt(doc_tags, r.src)))

\* C8 as the specification states it: the title of a record is the text
\* attribute of its outline when non-empty, else its title attribute, else
\* empty; on the fallback path these are the attributes named text and
\* title of the matched tag.
C8_TitleFromTextThenTitle ==
    pc = "DONE" =>
        \A k \in 1..Len(result) : result[k].title = SourceTitle(result[k])

\* C9: the records returned are in the order of their sources in the text
\* that was scanned, and all of them come from one path.
C9_OrderAndOnePath ==
    pc = "DONE" =>
        /\ \A j, k \in 1..Len(result) : j < k => result[j].src < result[k].src
        /\ \A j, k \in 1..Len(result) : result[j].via = result[k].via

\* three records of the tree walk, one of them of a nested outline
C9_Witness ==
    /\ pc = "DONE"
    /\ raised = "none"
    /\ Len(result) >= 3
    /\ \E k \in 1..Len(root.elems) :
          /\ root.elems[k].depth >= 3
          /\ root.elems[k].pos \in {result[j].src : j \in 1..Len(result)}

\* the rows of the file that are not skipped, in order
RECURSIVE NonSkipped(_)
NonSkipped(n) ==
    IF n = 0 THEN <<>>
    ELSE LET row == rows[n]
             kept == /\ Strip(row.title.text) # <<>>
                     /\ Strip(row.url.text) # <<>>
                     /\ Strip(row.category.text) # <<>>
         IN  NonSkipped(n - 1) \o (IF kept THEN <<n>> ELSE <<>>)

Requests == SelectSeq(events, LAMBDA e : e.kind = "request")

\* C10 as the specification states it: when post_all_feeds has gone through
\* the rows, the requests sent are those of the rows that are not skipped,
\* one each and in order, the two counters add up to their number, and no
\* sleep comes after the last request.
C10_PostAllFeeds ==
    post_pc = "DONE" =>
        /\ [k \in 1..Len(Requests) |-> Requests[k].row] = NonSkipped(Len(rows))
        /\ successful_posts + failed_posts = Len(NonSkipped(Len(rows)))
        /\ \A k \in 1..Len(events) :
              events[k].kind = "sleep" =>
                  \E j \in (k + 1)..Len(events) : events[j].kind = "request"

====
